---- MODULE Spec2Model ----
(***************************************************************************)
(* Model of discord-news-bot (src/discord-news-bot/src/index.ts).          *)
(*                                                                         *)
(* Text is a sequence of tokens.  A token is a string: one character for   *)
(* the texts that are scanned character by character (message contents,    *)
(* language-model answers), or one literal of the source for the texts     *)
(* that are only concatenated (headers, notices, titles, URLs).  The       *)
(* Japanese literals of the source are written as ASCII glosses; each      *)
(* gloss names the line of the literal it stands for.                      *)
(*                                                                         *)
(* Every activation of a trigger callback (cron callback, messageCreate    *)
(* listener) is one entry of `runs`.  An async function runs without       *)
(* interruption up to its next `await` of a collaborator; every such       *)
(* segment is one action, and `pc` names the await the run is suspended at.*)
(***************************************************************************)
EXTENDS Integers, Sequences, FiniteSets, TLC

VARIABLES
    env,        \* process.env.TARGET_CHANNEL_ID
    alive,      \* the node process is running
    runs,       \* the activations of the trigger callbacks, in trigger order
    outbox,     \* the messages the chat platform accepted, in delivery order
    txt,        \* stripMentions study: the input string
    once,       \* stripMentions study: stripMentions(txt)
    twice,      \* stripMentions study: stripMentions(stripMentions(txt))
    phase       \* stripMentions study: number of applications made

vars == <<env, alive, runs, outbox, txt, once, twice, phase>>

(* ------------------------------ bounds -------------------------------- *)
MaxArticles == 2    \* longest article list the news search answers with
MaxRuns == 2        \* trigger firings in the overlap specification
MaxPieces == 6      \* pieces of an input string of the stripMentions study

(* ------------------------------ text ---------------------------------- *)
Undefined == "undefined"
Null == "null"

Contains(text, tok) == \E k \in DOMAIN text : text[k] = tok

RECURSIVE Join(_, _)
\* Array.prototype.join
Join(lines, sep) ==
    IF Len(lines) = 0 THEN << >>
    ELSE IF Len(lines) = 1 THEN lines[1]
    ELSE lines[1] \o sep \o Join(Tail(lines), sep)

IsSpace(c) == c \in {" ", "\n", "\t"}
IsDigit(c) == c \in {"0", "1", "2", "3", "4", "5", "6", "7", "8", "9"}

RECURSIVE TrimStart(_)
TrimStart(s) ==
    IF Len(s) > 0 /\ IsSpace(s[1]) THEN TrimStart(Tail(s)) ELSE s

RECURSIVE TrimEnd(_)
TrimEnd(s) ==
    IF Len(s) > 0 /\ IsSpace(s[Len(s)]) THEN TrimEnd(SubSeq(s, 1, Len(s) - 1)) ELSE s

\* String.prototype.trim
Trim(s) == TrimEnd(TrimStart(s))

(* --------------------------- stripMentions ---------------------------- *)
RECURSIVE DigitEnd(_, _)
\* the first index at or after j that holds no digit: the end of [0-9]* at j
DigitEnd(s, j) ==
    IF j <= Len(s) /\ IsDigit(s[j]) THEN DigitEnd(s, j + 1) ELSE j

HasPrefix(s, i, p) ==
    /\ i + Len(p) - 1 <= Len(s)
    /\ \A k \in 1..Len(p) : s[i + k - 1] = p[k]

\* length of the match of  p [0-9]+ >  that starts at index i, or 0
MatchTail(s, i, p) ==
    IF ~HasPrefix(s, i, p) THEN 0
    ELSE LET j == i + Len(p)
             e == DigitEnd(s, j)
         IN IF e > j /\ e <= Len(s) /\ s[e] = ">" THEN e - i + 1 ELSE 0

\* /<@!?[0-9]+>/ : the optional "!" is tried first, then the match without it
MatchUser(s, i) ==
    LET withBang == MatchTail(s, i, <<"<", "@", "!">>)
    IN IF withBang > 0 THEN withBang ELSE MatchTail(s, i, <<"<", "@">>)

\* /<@&[0-9]+>/
MatchRole(s, i) == MatchTail(s, i, <<"<", "@", "&">>)

\* /<#(?:[0-9]+)>/
MatchChannel(s, i) == MatchTail(s, i, <<"<", "#">>)

MatchLen(pat, s, i) ==
    IF pat = "user" THEN MatchUser(s, i)
    ELSE IF pat = "role" THEN MatchRole(s, i)
    ELSE MatchChannel(s, i)

RECURSIVE ReplaceFrom(_, _, _)
\* s.replace(/pat/g, '') from index i on: leftmost matches, left to right,
\* the scan resuming after each match (the removed text is never rescanned)
ReplaceFrom(pat, s, i) ==
    IF i > Len(s) THEN << >>
    ELSE LET n == MatchLen(pat, s, i)
         IN IF n > 0 THEN ReplaceFrom(pat, s, i + n)
            ELSE <<s[i]>> \o ReplaceFrom(pat, s, i + 1)

ReplaceAll(pat, s) == ReplaceFrom(pat, s, 1)

stripMentions(s) ==
    Trim(ReplaceAll("channel", ReplaceAll("role", ReplaceAll("user", s))))

(* ---------------------------- literals -------------------------------- *)
FALLBACK == "WARN: summary failed"                 \* index.ts:44
NOTICE_SEND == "No news was found today."          \* index.ts:125
NOTICE_REPLY == "No related news was found."       \* index.ts:127
HEADER_AI == "NEWS: today's AI news digest"        \* index.ts:135
HEADER_PRE == "NEWS: **"                           \* index.ts:136
HEADER_POST == "** latest news digest"             \* index.ts:136
SEPARATOR == "--------------"                      \* index.ts:140
INSTRUCTION == "Summarise the following articles in Japanese within 200 characters, as bullet points.\n\n"  \* index.ts:34-35
AI_CLAUSE == " AND (AI OR \"artificial intelligence\" OR GenerativeAI)"  \* index.ts:93
ERR_NEWSAPI == "Error thrown by newsapi"           \* the e of index.ts:110
ERR_OPENAI == "Error thrown by openai"             \* the e of index.ts:42
ERR_TYPE == "TypeError: cannot read properties of undefined"  \* res.choices[0] absent, index.ts:41
ERR_CRON == "target channel not found"             \* index.ts:161

(* ----------------------------- articles ------------------------------- *)
\* publishedAt is an ISO instant: a day of January 2024 and an hour, UTC
A1 == [title |-> "title-1", description |-> "description-1", url |-> "https://example.org/1",
       publishedAt |-> [day |-> 2, hour |-> 3]]
A2 == [title |-> "title-2", description |-> Null, url |-> "https://example.org/2",
       publishedAt |-> [day |-> 1, hour |-> 20]]
Articles == {A1, A2}

ArticleLists == UNION {[1..n -> Articles] : n \in 0..MaxArticles}

\* toJSTDate: the calendar day of the instant in Asia/Tokyo (UTC+9), as ja-JP
\* yyyy/mm/dd
toJSTDate(iso) ==
    LET d == IF iso.hour + 9 >= 24 THEN iso.day + 1 ELSE iso.day
    IN <<"2024/01/", IF d < 10 THEN "0" ELSE "", ToString(d)>>

Ordinal(i) == <<"[", ToString(i), "]">>

\* promptBody with the map starting one article late
promptBody_SkipsFirst(articles) ==
    Join([i \in 1..(Len(articles) - 1) |->
            Ordinal(i) \o <<articles[i + 1].title, "\n">>
            \o (IF articles[i + 1].description = Null THEN << >>
                ELSE <<articles[i + 1].description>>)],
         <<"\n\n">>)

\* the promptBody of summarize
promptBody(articles) ==
    Join([i \in 1..Len(articles) |->
            Ordinal(i) \o <<articles[i].title, "\n">>
            \o (IF articles[i].description = Null THEN << >>
                ELSE <<articles[i].description>>)],
         <<"\n\n">>)

makeArticleList(articles) ==
    Join([i \in 1..Len(articles) |->
            Ordinal(i) \o toJSTDate(articles[i].publishedAt)
            \o <<" | ", articles[i].url>>],
         <<"\n">>)

header(theme, aiFilter) ==
    IF aiFilter THEN <<HEADER_AI>> ELSE <<HEADER_PRE>> \o theme \o <<HEADER_POST>>

\* the message of composeAndSend
message(theme, aiFilter, summary, articles) ==
    header(theme, aiFilter) \o <<"\n">> \o summary \o <<"\n">>
    \o <<SEPARATOR, "\n">> \o makeArticleList(articles)

(* ------------------------------ inputs -------------------------------- *)
TargetChannel == "chan-1"
OtherChannel == "chan-2"

\* msg.content of the inbound messages
ContentMentionOnly == <<"<", "@", "1", ">", " ">>
ContentBlank == <<" ", "\n">>
ContentUser == <<"<", "@", "!", "1", "2", ">", " ", "a", "i", " ">>
ContentRoleChannel == <<"<", "@", "&", "2", ">", "<", "#", "3", ">", "x">>
ContentPlain == <<"g", "o">>
ContentNested == <<"<", "@", "<", "#", "7", ">", "1", ">">>
Contents == {ContentMentionOnly, ContentBlank, ContentUser, ContentRoleChannel,
             ContentPlain, ContentNested}

Messages == [bot : BOOLEAN, channelId : {TargetChannel, OtherChannel}, content : Contents]
NoMsg == [bot |-> FALSE, channelId |-> Undefined, content |-> << >>]

\* what newsapi.v2.everything answers: it throws, or resolves to an object
\* without an article list, or to one with a list
FetchResponses ==
    {[outcome |-> "throw", articles |-> << >>], [outcome |-> "noList", articles |-> << >>]}
    \cup {[outcome |-> "list", articles |-> as] : as \in ArticleLists}

\* what openai.chat.completions.create answers: it throws, or resolves to a
\* completion with no choice, or to one whose first choice has content null
\* or a text
LLMResponses ==
    {[outcome |-> "throw", content |-> << >>],
     [outcome |-> "noChoices", content |-> << >>],
     [outcome |-> "nullContent", content |-> << >>],
     [outcome |-> "content", content |-> <<" ", "-", "s", "1", "\n">>],
     [outcome |-> "content", content |-> <<"-", "s", "2">>]}

\* the inputs of the overlap specification
OverlapMessages ==
    {[bot |-> FALSE, channelId |-> TargetChannel, content |-> ContentUser],
     [bot |-> FALSE, channelId |-> TargetChannel, content |-> ContentRoleChannel],
     [bot |-> TRUE, channelId |-> TargetChannel, content |-> ContentUser],
     [bot |-> FALSE, channelId |-> OtherChannel, content |-> ContentMentionOnly]}
OverlapFetchResponses ==
    {[outcome |-> "throw", articles |-> << >>],
     [outcome |-> "list", articles |-> <<A1, A2>>]}
OverlapLLMResponses ==
    {[outcome |-> "throw", content |-> << >>],
     [outcome |-> "content", content |-> <<"-", "s", "2">>]}

(* ------------------------------- runs --------------------------------- *)
Call(api, text, opts) == [api |-> api, text |-> text, opts |-> opts]
Log(text) == [level |-> "log", text |-> text]
LogError(where, err) == [level |-> "error", text |-> <<where, err>>]

\* an activation of a trigger callback that has not called composeAndSend
NewRun(kind, msg, ch) ==
    [kind |-> kind, msg |-> msg, ch |-> ch, composed |-> 0,
     target |-> "none", theme |-> << >>, aiFilter |-> FALSE, pc |-> "returned",
     fetched |-> "none", articles |-> << >>, llm |-> "none", summary |-> << >>,
     message |-> << >>, calls |-> << >>, logs |-> << >>]

\* fetchNews up to its await: the query, the parameters, the log line, the call
fetchNewsQuery(query, aiFilter) ==
    IF aiFilter THEN query \o <<AI_CLAUSE>> ELSE query

fetchNewsCall(query, aiFilter) ==
    Call("newsapi.v2.everything", fetchNewsQuery(query, aiFilter),
         <<"sortBy=publishedAt", "pageSize=5">>
         \o (IF aiFilter THEN <<"language=en">> ELSE << >>))

\* fetchNews after its await: what it returns to composeAndSend
fetchNewsResult(resp) ==
    IF resp.outcome = "throw" THEN << >>
    ELSE IF resp.outcome = "noList" THEN << >>
    ELSE resp.articles

fetchNewsLog(resp) ==
    IF resp.outcome = "throw" THEN LogError("fetchNews", ERR_NEWSAPI)
    ELSE Log(<<"Fetched ", ToString(Len(fetchNewsResult(resp))), " articles">>)

\* 'send' in target ? target.send(text) : target.reply(text)
deliveryCall(target, text) ==
    IF target = "channel" THEN Call("send", text, << >>) ELSE Call("reply", text, << >>)

notice(target) ==
    IF target = "channel" THEN <<NOTICE_SEND>> ELSE <<NOTICE_REPLY>>

\* summarize up to its await
summarizeCall(articles) ==
    Call("openai.chat.completions.create", <<INSTRUCTION>> \o promptBody(articles),
         <<"model=gpt-4o", "role=user", "max_tokens=400">>)

\* summarize whose catch returns the empty text
summarizeResult_NoFallback(resp) ==
    IF resp.outcome \in {"throw", "noChoices"} THEN << >>
    ELSE IF resp.outcome = "nullContent" THEN << >>
    ELSE Trim(resp.content)

\* summarize whose catch returns the text of the error it caught
summarizeResult_ErrorText(resp) ==
    IF resp.outcome = "throw" THEN <<ERR_OPENAI>>
    ELSE IF resp.outcome = "noChoices" THEN <<ERR_TYPE>>
    ELSE IF resp.outcome = "nullContent" THEN << >>
    ELSE Trim(resp.content)

\* summarize after its await: what it returns to composeAndSend
summarizeResult(resp) ==
    IF resp.outcome \in {"throw", "noChoices"} THEN <<FALLBACK>>
    ELSE IF resp.outcome = "nullContent" THEN << >>
    ELSE Trim(resp.content)

summarizeLogs(resp) ==
    IF resp.outcome = "throw" THEN <<LogError("summarize", ERR_OPENAI)>>
    ELSE IF resp.outcome = "noChoices" THEN <<LogError("summarize", ERR_TYPE)>>
    ELSE << >>

\* composeAndSend from its entry to the await of fetchNews
composeAndSendStart(r, target, theme, aiFilter) ==
    [r EXCEPT !.composed = @ + 1, !.target = target, !.theme = theme,
              !.aiFilter = aiFilter, !.pc = "fetchNews",
              !.logs = @ \o <<Log(<<"Fetching news: ">> \o fetchNewsQuery(theme, aiFilter))>>,
              !.calls = @ \o <<fetchNewsCall(theme, aiFilter)>>]

\* composeAndSend without the early return on an empty article list
afterFetch_NoShortCircuit(r, resp) ==
    LET articles == fetchNewsResult(resp)
    IN [r EXCEPT !.fetched = resp.outcome, !.articles = articles,
                 !.logs = @ \o <<fetchNewsLog(resp)>>, !.pc = "summarize",
                 !.calls = @ \o <<summarizeCall(articles)>>]

\* composeAndSend over a fetchNews without its try/catch and its ?? []
afterFetch_Propagates(r, resp) ==
    LET articles == fetchNewsResult(resp)
        fetched == [r EXCEPT !.fetched = resp.outcome, !.articles = articles,
                             !.logs = @ \o <<fetchNewsLog(resp)>>]
    IN IF resp.outcome \in {"throw", "noList"}
       THEN [fetched EXCEPT !.pc = "rejected"]
       ELSE IF Len(articles) = 0
       THEN [fetched EXCEPT !.pc = "notice",
                            !.calls = @ \o <<deliveryCall(r.target, notice(r.target))>>]
       ELSE [fetched EXCEPT !.pc = "summarize",
                            !.calls = @ \o <<summarizeCall(articles)>>]

\* composeAndSend from the answer of the news search to its next await
afterFetch(r, resp) ==
    LET articles == fetchNewsResult(resp)
        fetched == [r EXCEPT !.fetched = resp.outcome, !.articles = articles,
                             !.logs = @ \o <<fetchNewsLog(resp)>>]
    IN IF Len(articles) = 0
       THEN [fetched EXCEPT !.pc = "notice",
                            !.calls = @ \o <<deliveryCall(r.target, notice(r.target))>>]
       ELSE [fetched EXCEPT !.pc = "summarize",
                            !.calls = @ \o <<summarizeCall(articles)>>]

\* composeAndSend that sends the header and the summary before the article
\* index is rendered
afterSummarize_PartialSend(r, resp) ==
    LET summary == summarizeResult(resp)
        text == message(r.theme, r.aiFilter, summary, r.articles)
    IN [r EXCEPT !.llm = resp.outcome, !.summary = summary, !.message = text,
                 !.logs = @ \o summarizeLogs(resp), !.pc = "deliver",
                 !.calls = @ \o <<deliveryCall(r.target,
                                     header(r.theme, r.aiFilter) \o <<"\n">> \o summary)>>]

\* composeAndSend from the answer of the language model to its next await
afterSummarize(r, resp) ==
    LET summary == summarizeResult(resp)
        text == message(r.theme, r.aiFilter, summary, r.articles)
    IN [r EXCEPT !.llm = resp.outcome, !.summary = summary, !.message = text,
                 !.logs = @ \o summarizeLogs(resp), !.pc = "deliver",
                 !.calls = @ \o <<deliveryCall(r.target, text)>>]

\* the sent message when the rendered text is kept in one module-level
\* variable that the latest activation has overwritten
sentMessage_Shared(i, r) ==
    LET waiting == {j \in DOMAIN runs : runs[j].pc \in {"notice", "deliver"}}
        latest == CHOOSE j \in waiting : \A k \in waiting : k <= j
    IN [run |-> i, via |-> r.calls[Len(r.calls)].api,
        text |-> runs[latest].calls[Len(runs[latest].calls)].text,
        suppressed |-> FALSE]

\* the message the chat platform holds once send or reply has resolved
sentMessage(i, r) ==
    [run |-> i, via |-> r.calls[Len(r.calls)].api, text |-> r.calls[Len(r.calls)].text,
     suppressed |-> FALSE]

\* the cron callback without the check of the resolved channel
cronRun_NoGuard(ch) ==
    composeAndSendStart(
        [NewRun("cron", NoMsg, ch) EXCEPT !.logs = <<Log(<<"Cron job fired (daily news)">>)>>],
        "channel", <<"AI">>, TRUE)

\* the cron callback up to its first await (or its end)
cronRun(ch) ==
    LET r == [NewRun("cron", NoMsg, ch) EXCEPT !.logs = <<Log(<<"Cron job fired (daily news)">>)>>]
    IN IF ch # Undefined
       THEN composeAndSendStart(r, "channel", <<"AI">>, TRUE)
       ELSE [r EXCEPT !.logs = @ \o <<LogError("cron", ERR_CRON)>>]

\* the early returns without the check of msg.author.bot
ignored_NoBotCheck(msg) ==
    \/ msg.channelId # env
    \/ Len(Trim(stripMentions(msg.content))) = 0

\* the early returns of the messageCreate listener
ignored(msg) ==
    \/ msg.bot
    \/ msg.channelId # env
    \/ Len(Trim(stripMentions(msg.content))) = 0

\* the messageCreate listener up to its first await (or its end)
messageRun(msg) ==
    LET r == NewRun("message", msg, Undefined)
        theme == Trim(stripMentions(msg.content))
    IN IF ignored(msg) THEN r
       ELSE composeAndSendStart(
                [r EXCEPT !.logs = <<Log(<<"Theme received: ">> \o theme)>>],
                "message", theme, FALSE)

(* ------------------------------ actions ------------------------------- *)
\* an await that rejects in composeAndSend rejects the callback's promise,
\* which nothing handles: the process may end there (fatal) or log and go on
Reject(i, fatal) ==
    /\ runs' = [runs EXCEPT ![i].pc = "rejected"]
    /\ alive' = ~fatal

\* the scheduler fires; ch is client.channels.cache.get(TARGET_CHANNEL_ID)
CronFire(ch) ==
    /\ alive
    /\ env = Undefined => ch = Undefined
    /\ runs' = Append(runs, cronRun(ch))
    /\ UNCHANGED <<env, alive, outbox, txt, once, twice, phase>>

\* the chat client emits messageCreate
MessageCreate(msg) ==
    /\ alive
    /\ runs' = Append(runs, messageRun(msg))
    /\ UNCHANGED <<env, alive, outbox, txt, once, twice, phase>>

\* the news search answers run i
FetchNewsReturn(i, resp) ==
    /\ alive
    /\ runs[i].pc = "fetchNews"
    /\ runs' = [runs EXCEPT ![i] = afterFetch(runs[i], resp)]
    /\ UNCHANGED <<env, alive, outbox, txt, once, twice, phase>>

\* the language model answers run i
SummarizeReturn(i, resp) ==
    /\ alive
    /\ runs[i].pc = "summarize"
    /\ runs' = [runs EXCEPT ![i] = afterSummarize(runs[i], resp)]
    /\ UNCHANGED <<env, alive, outbox, txt, once, twice, phase>>

\* the chat platform answers the send or reply of the notice of run i
NoticeReturn(i, ok, fatal) ==
    /\ alive
    /\ runs[i].pc = "notice"
    /\ IF ok
       THEN /\ outbox' = Append(outbox, sentMessage(i, runs[i]))
            /\ runs' = [runs EXCEPT ![i].pc = "returned"]
            /\ ~fatal
            /\ UNCHANGED alive
       ELSE /\ Reject(i, fatal)
            /\ UNCHANGED outbox
    /\ UNCHANGED <<env, txt, once, twice, phase>>

\* the chat platform answers the send or reply of the digest of run i
DeliverReturn(i, ok, fatal) ==
    /\ alive
    /\ runs[i].pc = "deliver"
    /\ IF ok
       THEN /\ outbox' = Append(outbox, sentMessage(i, runs[i]))
            /\ runs' = [runs EXCEPT ![i].pc = "suppress",
                                    ![i].calls = @ \o <<Call("suppressEmbeds", << >>, <<"true">>)>>]
            /\ ~fatal
            /\ UNCHANGED alive
       ELSE /\ Reject(i, fatal)
            /\ UNCHANGED outbox
    /\ UNCHANGED <<env, txt, once, twice, phase>>

\* the chat platform answers sent.suppressEmbeds(true) of run i
SuppressReturn(i, ok, fatal) ==
    /\ alive
    /\ runs[i].pc = "suppress"
    /\ IF ok
       THEN /\ outbox' = [k \in DOMAIN outbox |->
                            IF outbox[k].run = i
                            THEN [outbox[k] EXCEPT !.suppressed = TRUE]
                            ELSE outbox[k]]
            /\ runs' = [runs EXCEPT ![i].pc = "returned"]
            /\ ~fatal
            /\ UNCHANGED alive
       ELSE /\ Reject(i, fatal)
            /\ UNCHANGED outbox
    /\ UNCHANGED <<env, txt, once, twice, phase>>

Init ==
    /\ env \in {TargetChannel, Undefined}
    /\ alive = TRUE
    /\ runs = << >>
    /\ outbox = << >>
    /\ txt = << >>
    /\ once = << >>
    /\ twice = << >>
    /\ phase = 0

\* one activation, every input
Next ==
    \/ \E ch \in {TargetChannel, Undefined} : runs = << >> /\ CronFire(ch)
    \/ \E msg \in Messages : runs = << >> /\ MessageCreate(msg)
    \/ \E i \in DOMAIN runs, resp \in FetchResponses : FetchNewsReturn(i, resp)
    \/ \E i \in DOMAIN runs, resp \in LLMResponses : SummarizeReturn(i, resp)
    \/ \E i \in DOMAIN runs, ok \in BOOLEAN, fatal \in BOOLEAN : NoticeReturn(i, ok, fatal)
    \/ \E i \in DOMAIN runs, ok \in BOOLEAN, fatal \in BOOLEAN : DeliverReturn(i, ok, fatal)
    \/ \E i \in DOMAIN runs, ok \in BOOLEAN, fatal \in BOOLEAN : SuppressReturn(i, ok, fatal)

Spec == Init /\ [][Next]_vars

\* up to MaxRuns activations, overlapping in every order
NextOverlap ==
    \/ \E ch \in {TargetChannel, Undefined} : Len(runs) < MaxRuns /\ CronFire(ch)
    \/ \E msg \in OverlapMessages : Len(runs) < MaxRuns /\ MessageCreate(msg)
    \/ \E i \in DOMAIN runs, resp \in OverlapFetchResponses : FetchNewsReturn(i, resp)
    \/ \E i \in DOMAIN runs, resp \in OverlapLLMResponses : SummarizeReturn(i, resp)
    \/ \E i \in DOMAIN runs, ok \in BOOLEAN, fatal \in BOOLEAN : NoticeReturn(i, ok, fatal)
    \/ \E i \in DOMAIN runs, ok \in BOOLEAN, fatal \in BOOLEAN : DeliverReturn(i, ok, fatal)
    \/ \E i \in DOMAIN runs, ok \in BOOLEAN, fatal \in BOOLEAN : SuppressReturn(i, ok, fatal)

SpecOverlap == Init /\ [][NextOverlap]_vars

(* ----------------------- stripMentions study -------------------------- *)
\* the input strings: up to MaxPieces pieces, each a character of the
\* alphabet or the opening of a mention
Pieces == {<<"<", "@">>, <<"<", "#">>, <<"!">>, <<"&">>, <<"1">>, <<">">>, <<" ">>}

RECURSIVE PieceStrings(_)
PieceStrings(n) ==
    IF n = 0 THEN {<< >>}
    ELSE LET shorter == PieceStrings(n - 1)
         IN shorter \cup {p \o x : p \in Pieces, x \in shorter}

InitStrip ==
    /\ env = TargetChannel
    /\ alive = TRUE
    /\ runs = << >>
    /\ outbox = << >>
    /\ txt \in PieceStrings(MaxPieces)
    /\ once = << >>
    /\ twice = << >>
    /\ phase = 0

StripOnce ==
    /\ phase = 0
    /\ once' = stripMentions(txt)
    /\ phase' = 1
    /\ UNCHANGED <<env, alive, runs, outbox, txt, twice>>

StripTwice ==
    /\ phase = 1
    /\ twice' = stripMentions(once)
    /\ phase' = 2
    /\ UNCHANGED <<env, alive, runs, outbox, txt, once>>

NextStrip == StripOnce \/ StripTwice

SpecStrip == InitStrip /\ [][NextStrip]_vars

(* ------------------------------ claims -------------------------------- *)
\* C8: mention stripping is idempotent: stripping the stripped string gives
\* the stripped string again.
C8_StripIdempotent == phase = 2 => twice = once

DeliveryApis == {"send", "reply"}
LLMApi == "openai.chat.completions.create"
NewsApi == "newsapi.v2.everything"

\* the indices of the calls of run r to one of the apis
CallsTo(r, apis) == {k \in DOMAIN r.calls : r.calls[k].api \in apis}

\* the indices of the delivered messages of run i
OutboxOf(i) == {k \in DOMAIN outbox : outbox[k].run = i}

\* the collaborator call a target's capability maps to
ViaOf(target) == IF target = "channel" THEN "send" ELSE "reply"

\* pat occurs in text at index p
OccursAt(text, p, pat) ==
    /\ p + Len(pat) - 1 <= Len(text)
    /\ \A k \in 1..Len(pat) : text[p + k - 1] = pat[k]

RECURSIVE SplitLines(_)
\* the lines of a text, split at its "\n" tokens
SplitLines(text) ==
    IF ~Contains(text, "\n") THEN <<text>>
    ELSE LET p == CHOOSE q \in 1..Len(text) :
                     text[q] = "\n" /\ \A j \in 1..(q - 1) : text[j] # "\n"
         IN <<SubSeq(text, 1, p - 1)>> \o SplitLines(SubSeq(text, p + 1, Len(text)))

\* run r went through composeAndSend and its fetch step yielded no article
EmptyFetch(r) == r.composed = 1 /\ r.fetched # "none" /\ Len(r.articles) = 0

\* the calls and position of a run on the "not found" path
OnNoticePath(r) ==
    /\ r.pc \in {"notice", "returned", "rejected"}
    /\ Len(r.calls) = 2
    /\ r.calls[1].api = NewsApi
    /\ r.calls[2] = [api |-> ViaOf(r.target), text |-> notice(r.target), opts |-> << >>]
    /\ CallsTo(r, {LLMApi}) = {}

\* C1: when the fetch step yields no article, the run issues exactly one
\* "not found" notice through its target (send for a channel, reply for a
\* message), never calls the language model, and does nothing after it.
C1_EmptyFetchNotice ==
    \A i \in DOMAIN runs :
        EmptyFetch(runs[i]) =>
            /\ OnNoticePath(runs[i])
            /\ Cardinality(CallsTo(runs[i], DeliveryApis)) = 1
            /\ runs[i].target = "channel" => runs[i].calls[2].text = <<NOTICE_SEND>>
            /\ runs[i].target = "message" => runs[i].calls[2].text = <<NOTICE_REPLY>>
            /\ Cardinality(OutboxOf(i)) <= 1
            /\ runs[i].pc = "returned" =>
                 \E k \in OutboxOf(i) :
                    /\ outbox[k].text = notice(runs[i].target)
                    /\ outbox[k].via = ViaOf(runs[i].target)

C1_Witness ==
    \E i \in DOMAIN runs :
        /\ runs[i].fetched = "list" /\ EmptyFetch(runs[i])
        /\ runs[i].pc = "returned" /\ runs[i].target = "message"
        /\ OutboxOf(i) # {}

\* C2: when the fetch step yields at least one article, the language model is
\* called exactly once, and the prompt holds, for every article in fetch
\* order, its ordinal marker followed by its title.
C2_PromptHasEveryTitle ==
    \A i \in DOMAIN runs :
        LET r == runs[i]
            n == Len(r.articles)
        IN n >= 1 =>
            /\ Cardinality(CallsTo(r, {LLMApi})) = 1
            /\ LET prompt == r.calls[CHOOSE k \in CallsTo(r, {LLMApi}) : TRUE].text
               IN \E at \in [1..n -> 1..Len(prompt)] :
                    /\ \A k \in 1..n :
                         OccursAt(prompt, at[k], <<"[", ToString(k), "]", r.articles[k].title>>)
                    /\ \A k \in 1..(n - 1) : at[k] < at[k + 1]

C2_Witness ==
    \E i \in DOMAIN runs :
        /\ runs[i].articles = <<A2, A1>>
        /\ runs[i].pc = "returned"

\* C3: when the language model throws, summarize returns the fixed fallback
\* text, and composeAndSend still renders and hands to the target a message
\* holding the fallback text, then the separator, then one index line per
\* fetched article in fetch order.
C3_FallbackStillDelivered ==
    \A i \in DOMAIN runs :
        LET r == runs[i]
        IN r.llm = "throw" =>
            /\ r.summary = <<FALLBACK>>
            /\ r.pc \in {"deliver", "suppress", "returned", "rejected"}
            /\ Cardinality(CallsTo(r, DeliveryApis)) = 1
            /\ LET c == r.calls[CHOOSE k \in CallsTo(r, DeliveryApis) : TRUE]
                   text == c.text
               IN /\ c.api = ViaOf(r.target)
                  /\ \E p \in 1..Len(text) :
                       /\ text[p] = FALLBACK
                       /\ OccursAt(text, p + 1, <<"\n", SEPARATOR, "\n">>)
                       /\ LET lines == SplitLines(SubSeq(text, p + 4, Len(text)))
                          IN /\ Len(lines) = Len(r.articles)
                             /\ \A k \in 1..Len(lines) :
                                  /\ OccursAt(lines[k], 1, <<"[", ToString(k), "]">>)
                                  /\ lines[k][Len(lines[k])] = r.articles[k].url
                  /\ r.pc \in {"suppress", "returned"} =>
                       \E k \in OutboxOf(i) : outbox[k].text = text

C3_Witness ==
    \E i \in DOMAIN runs :
        /\ runs[i].llm = "throw"
        /\ runs[i].articles = <<A1, A2>>
        /\ runs[i].pc = "returned"
        /\ \E k \in OutboxOf(i) : Contains(outbox[k].text, FALLBACK)

\* C4: when the news search throws, or answers without an article list,
\* fetchNews returns the empty sequence and no exception reaches
\* composeAndSend, which goes on exactly as for a search with zero results:
\* the one notice through the target, no language-model call.
C4_FetchFailureIsEmpty ==
    \A i \in DOMAIN runs :
        runs[i].fetched \in {"throw", "noList"} =>
            /\ runs[i].articles = << >>
            /\ OnNoticePath(runs[i])
            /\ runs[i].pc = "returned" =>
                 /\ Cardinality(OutboxOf(i)) = 1
                 /\ \A k \in OutboxOf(i) : outbox[k].text = notice(runs[i].target)

C4_Witness ==
    /\ \E i \in DOMAIN runs :
        /\ runs[i].fetched = "throw"
        /\ runs[i].pc = "returned"
        /\ OutboxOf(i) # {}

\* C5: a composeAndSend that returned normally has produced exactly one
\* outbound message (one send or one reply); on the non-empty path the text
\* handed to that one delivery call is the complete rendering (header,
\* summary, separator, article index), and suppressEmbeds is called only
\* after it, on the message that was sent.
C5_OneCompleteMessage ==
    \A i \in DOMAIN runs :
        LET r == runs[i]
            sends == CallsTo(r, DeliveryApis)
            lines == SplitLines(makeArticleList(r.articles))
        IN /\ Cardinality(OutboxOf(i)) <= 1
           /\ Cardinality(sends) <= 1
           /\ \A k \in OutboxOf(i) : outbox[k].suppressed => r.pc = "returned"
           /\ (r.composed = 1 /\ r.pc = "returned") =>
                /\ Cardinality(sends) = 1
                /\ Cardinality(OutboxOf(i)) = 1
                /\ \A k \in OutboxOf(i) : \A c \in sends :
                     /\ outbox[k].via = r.calls[c].api
                     /\ outbox[k].text = r.calls[c].text
                     /\ outbox[k].via = ViaOf(r.target)
           /\ (r.composed = 1 /\ Len(r.articles) >= 1) =>
                /\ \A c \in sends :
                     /\ r.calls[c].text =
                          (IF r.aiFilter THEN <<HEADER_AI>>
                           ELSE <<HEADER_PRE>> \o r.theme \o <<HEADER_POST>>)
                          \o <<"\n">> \o r.summary \o <<"\n", SEPARATOR, "\n">>
                          \o makeArticleList(r.articles)
                     /\ Len(lines) = Len(r.articles)
                     /\ \A s \in CallsTo(r, {"suppressEmbeds"}) : c < s /\ OutboxOf(i) # {}
                /\ Cardinality(CallsTo(r, {"suppressEmbeds"})) <= 1
                /\ r.pc = "returned" =>
                     /\ Cardinality(CallsTo(r, {"suppressEmbeds"})) = 1
                     /\ \A k \in OutboxOf(i) : outbox[k].suppressed
           /\ (r.composed = 1 /\ Len(r.articles) = 0) =>
                /\ CallsTo(r, {"suppressEmbeds"}) = {}
                /\ \A k \in OutboxOf(i) : ~outbox[k].suppressed

C5_Witness ==
    \E i \in DOMAIN runs :
        /\ runs[i].composed = 1 /\ runs[i].pc = "returned"
        /\ Len(runs[i].articles) = 2
        /\ runs[i].llm = "content"
        /\ \E k \in OutboxOf(i) : outbox[k].suppressed

ErrorTexts == {ERR_NEWSAPI, ERR_OPENAI, ERR_TYPE, ERR_CRON}
FailureTexts == {NOTICE_SEND, NOTICE_REPLY, FALLBACK} \cup ErrorTexts
TellsOfFailure(text) == \E k \in DOMAIN text : text[k] \in FailureTexts

\* C7 as stated: the only failure-indicating text ever delivered is one of
\* the two fixed "no news found" notices.
C7_OnlyNotices ==
    \A k \in DOMAIN outbox :
        TellsOfFailure(outbox[k].text) =>
            outbox[k].text \in {<<NOTICE_SEND>>, <<NOTICE_REPLY>>}

\* C7 as amended: a delivered text that tells of a failure is one of the two
\* fixed notices, or a digest whose summary is the fixed summarize fallback
\* (delivered when the language-model call failed); no error raised by a
\* collaborator or a callback appears in a delivered text.
C7_NoticesOrFallback ==
    \A k \in DOMAIN outbox :
        LET text == outbox[k].text
            r == runs[outbox[k].run]
        IN /\ \A j \in DOMAIN text : text[j] \notin ErrorTexts
           /\ TellsOfFailure(text) =>
                \/ text \in {<<NOTICE_SEND>>, <<NOTICE_REPLY>>}
                \/ /\ r.llm \in {"throw", "noChoices"}
                   /\ r.summary = <<FALLBACK>>
                   /\ Cardinality({j \in DOMAIN text : text[j] \in FailureTexts}) = 1
           /\ r.llm \in {"throw", "noChoices"} => Contains(text, FALLBACK)

C7_Witness ==
    \E k \in DOMAIN outbox :
        /\ Contains(outbox[k].text, FALLBACK)
        /\ runs[outbox[k].run].llm = "throw"
        /\ outbox[k].suppressed

\* the topic of run r, from its own trigger
OwnTheme(r) ==
    IF r.kind = "cron" THEN <<"AI">> ELSE stripMentions(r.msg.content)

\* C9: when activations overlap, under every interleaving each one delivers
\* at most one message, exactly one once its composeAndSend has returned, to
\* its own target and built only from its own topic, mode, summary and
\* articles; delivery order may differ from trigger order.
C9_OverlapIndependent ==
    /\ \A i \in DOMAIN runs :
         /\ Cardinality(OutboxOf(i)) <= 1
         /\ Cardinality(CallsTo(runs[i], DeliveryApis)) <= 1
         /\ (runs[i].composed = 1 /\ runs[i].pc = "returned") => Cardinality(OutboxOf(i)) = 1
         /\ runs[i].composed = 0 => OutboxOf(i) = {}
    /\ \A k \in DOMAIN outbox :
         LET r == runs[outbox[k].run]
         IN /\ outbox[k].via = (IF r.kind = "cron" THEN "send" ELSE "reply")
            /\ outbox[k].text =
                 (IF Len(r.articles) = 0
                  THEN (IF r.kind = "cron" THEN <<NOTICE_SEND>> ELSE <<NOTICE_REPLY>>)
                  ELSE message(OwnTheme(r), r.kind = "cron", r.summary, r.articles))
            /\ outbox[k].suppressed => r.pc = "returned"

C9_Witness ==
    /\ Len(outbox) = 2
    /\ outbox[1].run = 2 /\ outbox[2].run = 1
    /\ runs[1].kind = "message" /\ runs[2].kind = "cron"
    /\ Len(runs[1].articles) = 2 /\ Len(runs[2].articles) = 2
    /\ runs[1].llm # runs[2].llm
    /\ runs[1].pc = "returned" /\ runs[2].pc = "returned"

\* C10: a scheduled firing whose channel does not resolve logs an error and
\* ends with no news-search, language-model or delivery call; a scheduled
\* firing whose channel resolves, also after such an aborted one, runs
\* composeAndSend with topic "AI", curated mode on and broadcast delivery.
C10_CronTrigger ==
    \A i \in DOMAIN runs :
        LET r == runs[i]
        IN r.kind = "cron" =>
            /\ r.ch = Undefined =>
                 /\ r.composed = 0
                 /\ r.calls = << >>
                 /\ r.pc = "returned"
                 /\ OutboxOf(i) = {}
                 /\ \E k \in DOMAIN r.logs :
                      r.logs[k].level = "error" /\ r.logs[k].text[1] = "cron"
            /\ r.ch # Undefined =>
                 /\ r.composed = 1
                 /\ r.theme = <<"AI">>
                 /\ r.aiFilter
                 /\ r.target = "channel"
                 /\ r.calls[1] = [api |-> NewsApi, text |-> <<"AI", AI_CLAUSE>>,
                                  opts |-> <<"sortBy=publishedAt", "pageSize=5", "language=en">>]
                 /\ \A c \in CallsTo(r, DeliveryApis) : r.calls[c].api = "send"
                 /\ \A k \in DOMAIN r.logs : r.logs[k].level = "error" => r.logs[k].text[1] # "cron"

C10_Witness ==
    /\ Len(runs) = 2
    /\ runs[1].kind = "cron" /\ runs[1].ch = Undefined
    /\ runs[2].kind = "cron" /\ runs[2].ch # Undefined
    /\ runs[2].pc = "returned" /\ Len(runs[2].articles) = 2
    /\ \E k \in OutboxOf(2) : outbox[k].via = "send" /\ outbox[k].suppressed

====
